---- MODULE Spec2Model ----
(***************************************************************************)
(* Work Grand Prix (src/main.js): the task / sector timer state machine of *)
(* one browser tab, its key-value persistence and its best-effort pushes   *)
(* to and pulls from the hosted task-row store.                            *)
(*                                                                         *)
(* Time is the value of Date.now().  It starts positive (the code tests    *)
(* timestamps for truthiness) and never goes backwards in this model.      *)
(* Task ids are unique opaque strings in the code; the model draws the     *)
(* least id that no document and no backend row uses.                      *)
(***************************************************************************)
EXTENDS Integers, Sequences, FiniteSets, TLC

\* ---------------------------------------------------------------- bounds
MaxTime == 3
MaxIds == 16
MaxFinishes == 4
MaxFaults == 1
MaxDays == 1
MaxInFlight == 1

\* ------------------------------------------------------------- constants
SECTOR_DURATION_MS == 2700000
MIN_TASKS == 4
MAX_TASKS == 15
POINTS_PER_TASK == 25
NUM_SECTORS == 3
DAY_MS == 86400000
T0 == 1

Null == -1          \* a JavaScript null where a number is expected
None == "none"      \* a JavaScript null where a string is expected
Users == {"alice"}
SectorNums == 1..NUM_SECTORS
\* The sector cards and the task rows the modelled user clicks.
ClickedSectors == {1}
ClickedRows == {1}
TaskIds == 1..MaxIds
Tabs == {1, 2}
\* The leaderboard container before a table was drawn in it.
NoTable == [variant |-> "none", rows |-> <<>>]
\* A tab that is not open.
ClosedTab == [open |-> FALSE, data |-> [users |-> <<>>], currentUser |-> "none",
              onlineUsers |-> {}]
NoShake == [from |-> "none", to |-> "none", stage |-> "none"]

VARIABLES
    now,                  \* Date.now()
    data,                 \* in-memory document { users: {...} }
    stored,               \* localStorage[STORAGE_KEY], parsed
    storedUser,           \* localStorage[CURRENT_USER_KEY]
    currentUser,
    sessionUser,          \* backend identity held by the tab
    supaSession,          \* identity persisted by the backend client
    currentSector,
    screen,               \* which render function filled #app last
    view,                 \* {sectorData captured by the mounted task board}
    sectorTimerInterval,  \* {} (null) or {sectorData its poll closes over}
    countdowns,           \* sectorData of pending Ready countdown callbacks
    renders,              \* renderSectorTasks calls awaiting the backend
    dbTasks,              \* rows of the backend table 'tasks'
    faults,               \* failed backend requests so far
    lastAlert,            \* alert raised by the step just taken, if any
    readyDisabled,        \* readyBtn.disabled of the mounted task board
    gPause,               \* history: real paused time per task id
    leaderboard,          \* rows of the leaderboard table drawn last
    tabs,                 \* further tabs of the browser: own document copy, user
    channel,              \* broadcast messages not yet delivered to a tab
    gShake                \* history: how far the friend request followed has got

vars == <<now, data, stored, storedUser, currentUser, sessionUser, supaSession,
          currentSector, screen, view, sectorTimerInterval, countdowns,
          renders, dbTasks, faults, lastAlert, readyDisabled, gPause,
          leaderboard, tabs, channel, gShake>>

\* What the handlers of the task machine do not touch.
ext == <<leaderboard, tabs, channel, gShake>>

\* --------------------------------------------------------------- helpers
Max(a, b) == IF a >= b THEN a ELSE b

\* JavaScript `x || d` on a number-or-null: 0 and null are falsy.
OrElse(x, d) == IF x = Null \/ x = 0 THEN d ELSE x

\* JavaScript truthiness of a number-or-null.
Truthy(x) == x # Null /\ x # 0

EmptyFn == [x \in {} |-> Null]

getTodayKey == now \div DAY_MS

NewUser == [friends |-> <<>>, friendRequests |-> <<>>, points |-> 0,
            records |-> EmptyFn]

NewTask(id) == [id |-> id, status |-> "Not started", startTime |-> Null,
                endTime |-> Null, pauseDuration |-> 0, pauseStart |-> Null,
                duration |-> Null]

\* A sectorData reference: the sector object of user u, date d, sector s.
Path(u, d, s) == [user |-> u, date |-> d, sector |-> s]

HasSector(doc, p) ==
    /\ p.user \in DOMAIN doc.users
    /\ p.date \in DOMAIN doc.users[p.user].records
    /\ p.sector \in DOMAIN doc.users[p.user].records[p.date].sectors

SectorAt(doc, p) == doc.users[p.user].records[p.date].sectors[p.sector]

SetSector(doc, p, sec) ==
    [doc EXCEPT !.users[p.user].records[p.date].sectors =
        [s \in (DOMAIN @) \cup {p.sector} |-> IF s = p.sector THEN sec ELSE @[s]]]

SetTask(doc, p, i, t) ==
    SetSector(doc, p, [SectorAt(doc, p) EXCEPT !.tasks[i] = t])

SectorPaths(doc) ==
    UNION {UNION {{Path(u, d, s) : s \in DOMAIN doc.users[u].records[d].sectors}
                  : d \in DOMAIN doc.users[u].records}
           : u \in DOMAIN doc.users}

AllTasks(doc) ==
    UNION {{SectorAt(doc, p).tasks[i] : i \in 1..Len(SectorAt(doc, p).tasks)}
           : p \in SectorPaths(doc)}

TaskOf(doc, id) == CHOOSE t \in AllTasks(doc) : t.id = id

IdsOf(doc) ==
    UNION {{SectorAt(doc, p).tasks[i].id : i \in 1..Len(SectorAt(doc, p).tasks)}
           : p \in SectorPaths(doc)}

UsedIds == IdsOf(data) \cup IdsOf(stored) \cup {dbTasks[i].id : i \in 1..Len(dbTasks)}

FreshIds == TaskIds \ UsedIds

FreshId == CHOOSE id \in FreshIds : \A o \in FreshIds : id <= o

\* ------------------------------------------------- hosted task-row store
\* The row saveTaskToSupabase builds from a local task.
TaskRow(uid, dateKey, sector, task) ==
    [id |-> task.id, user_id |-> uid, work_date |-> dateKey, sector |-> sector,
     status |-> task.status,
     start_ts |-> IF Truthy(task.startTime) THEN task.startTime ELSE Null,
     end_ts |-> IF Truthy(task.endTime) THEN task.endTime ELSE Null,
     pause_ms |-> OrElse(task.pauseDuration, 0),
     duration_ms |-> OrElse(task.duration, Null)]

\* The local task syncTasksFromSupabase builds from a row.
RowToTask(row) ==
    [id |-> row.id, status |-> row.status,
     startTime |-> IF Truthy(row.start_ts) THEN row.start_ts ELSE Null,
     endTime |-> IF Truthy(row.end_ts) THEN row.end_ts ELSE Null,
     pauseDuration |-> OrElse(row.pause_ms, 0),
     pauseStart |-> Null,
     duration |-> OrElse(row.duration_ms, Null)]

MapRows(rows) == [i \in 1..Len(rows) |-> RowToTask(rows[i])]

\* upsert on the primary key id; a new row is the latest by created_at.
Upsert(tbl, row) ==
    IF \E i \in 1..Len(tbl) : tbl[i].id = row.id
    THEN [i \in 1..Len(tbl) |-> IF tbl[i].id = row.id THEN row ELSE tbl[i]]
    ELSE Append(tbl, row)

RowIdIs(id, r) == r.id = id

DeleteRow(tbl, id) == SelectSeq(tbl, LAMBDA r : ~RowIdIs(id, r))

SelectRows(tbl, uid, dateKey, sector) ==
    SelectSeq(tbl, LAMBDA r : r.user_id = uid /\ r.work_date = dateKey
                                /\ r.sector = sector)

\* Outcomes of one fire-and-forget request: not sent without an identity,
\* otherwise applied, or lost while the failure budget lasts.
PushOutcomes ==
    IF sessionUser = None THEN {"skip"}
    ELSE IF faults < MaxFaults THEN {"ok", "fail"} ELSE {"ok"}

FaultsAfter(o) == IF o = "fail" THEN faults + 1 ELSE faults

saveTaskToSupabase(o, dateKey, sector, task) ==
    IF o = "ok" THEN Upsert(dbTasks, TaskRow(sessionUser, dateKey, sector, task))
    ELSE dbTasks

deleteTaskFromSupabase(o, id) ==
    IF o = "ok" THEN DeleteRow(dbTasks, id) ELSE dbTasks

syncTasksFromSupabase(o, uid, p, sec) ==
    LET rows == SelectRows(dbTasks, uid, p.date, p.sector)
    IN  IF o = "ok" /\ Len(rows) > 0 THEN [sec EXCEPT !.tasks = MapRows(rows)]
        ELSE sec

\* ----------------------------------------------------------------- init
Init ==
    /\ now = T0
    /\ data = [users |-> EmptyFn]
    /\ stored = [users |-> EmptyFn]
    /\ storedUser = None
    /\ currentUser = None
    /\ sessionUser = None
    /\ supaSession = None
    /\ currentSector = Null
    /\ screen = "auth"
    /\ view = {}
    /\ sectorTimerInterval = {}
    /\ countdowns = {}
    /\ renders = {}
    /\ dbTasks = <<>>
    /\ faults = 0
    /\ lastAlert = None
    /\ readyDisabled = FALSE
    /\ gPause = EmptyFn
    /\ leaderboard = NoTable
    /\ tabs = [t \in Tabs |-> ClosedTab]
    /\ channel = {}
    /\ gShake = NoShake

\* ---------------------------------------------------------- leaderboard
\* Date.getDay() of day number d (day 0 is Thursday 1 January 1970):
\* 0 = Sunday ... 6 = Saturday.
getDay(d) == (d + 4) % 7

\* getMonday(date): midnight of the Monday of the week of time date, the
\* Monday six days back when date is a Sunday.
getMonday(date) ==
    LET d    == date \div DAY_MS
        day  == getDay(d)
        diff == (IF day = 0 THEN -6 ELSE 1) - day
    IN  (d + diff) * DAY_MS

\* new Date(dateKey + 'T00:00:00'): midnight of the day a key names.
recordDate(dateKey) == dateKey * DAY_MS

\* The window test of computeCurrentWeekLeaderboard, preceded by a faulty
\* variant whose window runs on through Sunday.
InWindowThroughSunday(dateKey, today) ==
    LET monday == getMonday(today)
        sunday == monday + 6 * DAY_MS + (DAY_MS - 1)
    IN  recordDate(dateKey) >= monday /\ recordDate(dateKey) <= sunday

InWindow(dateKey, today) ==
    LET monday   == getMonday(today)
        saturday == monday + 5 * DAY_MS + (DAY_MS - 1)
    IN  recordDate(dateKey) >= monday /\ recordDate(dateKey) <= saturday

\* The test of the innermost loop: a Finished task whose duration is a
\* number.
Counted(task) == task.status = "Finished" /\ task.duration # Null

RECURSIVE TasksTotal(_)
TasksTotal(tasks) ==
    IF tasks = <<>> THEN 0
    ELSE (IF Counted(Head(tasks)) THEN Head(tasks).duration ELSE 0)
         + TasksTotal(Tail(tasks))

RECURSIVE SectorsTotal(_, _)
SectorsTotal(record, n) ==
    IF n > NUM_SECTORS THEN 0
    ELSE (IF n \in DOMAIN record.sectors
          THEN TasksTotal(record.sectors[n].tasks) ELSE 0)
         + SectorsTotal(record, n + 1)

RECURSIVE RecordsTotal(_, _, _)
RecordsTotal(records, keys, today) ==
    IF keys = {} THEN 0
    ELSE LET k == CHOOSE x \in keys : TRUE
         IN  (IF InWindow(k, today) THEN SectorsTotal(records[k], 1) ELSE 0)
             + RecordsTotal(records, keys \ {k}, today)

\* let total of one user of the loop over data.users.
UserTotal(userData, today) ==
    RecordsTotal(userData.records, DOMAIN userData.records, today)

\* userData.points, 0 when the record has none.
PointsOf(userData) ==
    IF "points" \in DOMAIN userData THEN userData.points ELSE 0

\* The test that puts a user in the results, preceded by a faulty variant
\* that lists everybody.
ListedAlways(total, points, scored) == TRUE

Listed(total, points, scored) ==
    IF scored THEN total > 0 \/ points > 0 ELSE total > 0

\* The comparators of the two sorts, preceded by a faulty variant that
\* ranks by time alone.
CompareTimeOnly(a, b, byPoints) == a.totalTimeMs - b.totalTimeMs

Compare(a, b, byPoints) ==
    IF byPoints /\ b.points # a.points THEN b.points - a.points
    ELSE a.totalTimeMs - b.totalTimeMs

\* Array.prototype.sort, which is stable: x goes behind the rows it does
\* not precede.
RECURSIVE InsertRow(_, _, _)
InsertRow(sorted, x, byPoints) ==
    IF sorted = <<>> THEN <<x>>
    ELSE IF Compare(x, Head(sorted), byPoints) < 0 THEN <<x>> \o sorted
    ELSE <<Head(sorted)>> \o InsertRow(Tail(sorted), x, byPoints)

RECURSIVE SortRows(_, _)
SortRows(rows, byPoints) ==
    IF rows = <<>> THEN <<>>
    ELSE InsertRow(SortRows(SubSeq(rows, 1, Len(rows) - 1), byPoints),
                   rows[Len(rows)], byPoints)

\* The loop over Object.entries(data.users), entries the users in insertion
\* order; scored tells the variant that looks at points from the other.
RECURSIVE Results(_, _, _, _)
Results(doc, entries, today, scored) ==
    IF entries = <<>> THEN <<>>
    ELSE LET u     == Head(entries)
             total == UserTotal(doc.users[u], today)
         IN  (IF Listed(total, PointsOf(doc.users[u]), scored)
              THEN <<[username |-> u, totalTimeMs |-> total]>> ELSE <<>>)
             \o Results(doc, Tail(entries), today, scored)

computeCurrentWeekLeaderboard(doc, entries, today, scored) ==
    SortRows(Results(doc, entries, today, scored), FALSE)

\* The orders Object.entries can list the users of document doc in.
Entries(doc) ==
    {e \in [1..Cardinality(DOMAIN doc.users) -> DOMAIN doc.users] :
        \A i, j \in DOMAIN e : i # j => e[i] # e[j]}

\* ---------------------------------------------------------- persistence
\* What the storage key can hold besides the text of a document: no item,
\* or text JSON.parse throws on.
Unreadable == {[item |-> "absent"], [item |-> "malformed"]}

\* loadData(): the stored document, or an empty one when there is no item
\* or it does not parse.
loadData(raw) == IF raw \in Unreadable THEN [users |-> EmptyFn] ELSE raw

\* A save that keeps the stored records of users the saving document lacks.
saveDataMerged(d) ==
    stored' = [users |-> [u \in DOMAIN stored.users \cup DOMAIN d.users |->
                             IF u \in DOMAIN d.users THEN d.users[u]
                             ELSE stored.users[u]]]

\* saveData(): the whole in-memory document d replaces the stored one.
saveData(d) == stored' = d

WithUser(d, u) ==
    IF u \in DOMAIN d.users THEN d
    ELSE [d EXCEPT !.users = [x \in (DOMAIN @) \cup {u} |->
                                IF x = u THEN NewUser ELSE @[x]]]

\* ------------------------------------------------------ screen renderers
\* renderAuthForm / renderWelcome / renderSectorSelection: cancel the poll,
\* forget the sector, replace the DOM.
LeaveBoard(scr) ==
    /\ sectorTimerInterval' = {}
    /\ currentSector' = Null
    /\ screen' = scr
    /\ view' = {}
    /\ readyDisabled' = FALSE

\* renderHistory: cancels the poll but keeps currentSector.
renderHistory ==
    /\ sectorTimerInterval' = {}
    /\ screen' = "history"
    /\ view' = {}
    /\ readyDisabled' = FALSE
    /\ UNCHANGED currentSector

\* ensureCurrentSectorData on document d for user u, today, sector s.
ensureCurrentSectorData(d, u, s) ==
    LET recs == d.users[u].records
        day  == IF getTodayKey \in DOMAIN recs THEN recs[getTodayKey]
                ELSE [sectors |-> EmptyFn]
        secs == IF s \in DOMAIN day.sectors THEN day.sectors
                ELSE [x \in (DOMAIN day.sectors) \cup {s} |->
                        IF x = s THEN [startTime |-> Null, tasks |-> <<>>]
                        ELSE day.sectors[x]]
    IN  [d EXCEPT !.users[u].records =
            [k \in (DOMAIN recs) \cup {getTodayKey} |->
                IF k = getTodayKey THEN [sectors |-> secs] ELSE recs[k]]]

\* The polls that keep ticking when the one the variable refers to is not
\* cancelled.
clearIntervalSkipped(armed) == armed

\* clearInterval(sectorTimerInterval) on the set of armed polls: the poll the
\* variable refers to stops ticking.
clearInterval(armed) == {}

\* sectorTimerInterval = setInterval(updateSectorTimer, 1000) for the board
\* over p: one more poll ticks.
setInterval(armed, p) == armed \cup {p}

\* The tail of renderSectorTasks: mount the board over sectorData p of d,
\* run updateSectorTimer once and arm the poll iff the sector has started.
Mount(d, p) ==
    /\ screen' = "tasks"
    /\ view' = {p}
    /\ readyDisabled' = FALSE
    /\ sectorTimerInterval' =
          LET cancelled == clearInterval(sectorTimerInterval)
          IN  IF Truthy(SectorAt(d, p).startTime) THEN setInterval(cancelled, p)
              ELSE {}

\* renderSectorTasks() called with document d and currentSector cs.  It
\* throws in ensureCurrentSectorData when no record of currentUser exists;
\* it runs to the end at once without a backend identity, and otherwise
\* suspends at the await of the pull.
renderSectorTasks(d, cs) ==
    IF currentUser \notin DOMAIN d.users
    THEN /\ data' = d
         /\ UNCHANGED <<screen, view, readyDisabled, sectorTimerInterval, renders>>
    ELSE LET d1 == ensureCurrentSectorData(d, currentUser, cs)
             p  == Path(currentUser, getTodayKey, cs)
         IN  /\ data' = d1
             /\ IF sessionUser = None
                THEN Mount(d1, p) /\ UNCHANGED renders
                ELSE /\ renders' = renders \cup {[path |-> p, uid |-> sessionUser]}
                     /\ UNCHANGED <<screen, view, readyDisabled, sectorTimerInterval>>

\* ------------------------------------------------------------------ time
ClockSteps == {1}

\* Time passes.
Tick(d) ==
    /\ UNCHANGED ext
    /\ now + d <= MaxTime
    /\ now' = now + d
    /\ UNCHANGED <<data, stored, storedUser, currentUser, sessionUser, supaSession,
                   currentSector, screen, view, sectorTimerInterval, countdowns,
                   renders, dbTasks, faults, readyDisabled, gPause>>
    /\ lastAlert' = None

\* The clock reaches midnight: getTodayKey names the next day from here on.
Midnight ==
    /\ UNCHANGED ext
    /\ getTodayKey < MaxDays
    /\ now' = (getTodayKey + 1) * DAY_MS
    /\ UNCHANGED <<data, stored, storedUser, currentUser, sessionUser, supaSession,
                   currentSector, screen, view, sectorTimerInterval, countdowns,
                   renders, dbTasks, faults, readyDisabled, gPause>>
    /\ lastAlert' = None

\* The clock runs on for the length of a sector.
Elapse ==
    /\ UNCHANGED ext
    /\ now <= MaxTime
    /\ now' = now + SECTOR_DURATION_MS
    /\ UNCHANGED <<data, stored, storedUser, currentUser, sessionUser, supaSession,
                   currentSector, screen, view, sectorTimerInterval, countdowns,
                   renders, dbTasks, faults, readyDisabled, gPause>>
    /\ lastAlert' = None

\* ------------------------------------------------------------------ auth
\* form.onsubmit with isLogin: "signin" is a rejected sign-in, "profile" a
\* failed profile fetch after a successful sign-in.
SubmitLogin(u, o) ==
    /\ UNCHANGED ext
    /\ screen = "auth"
    /\ o = "profile" => faults < MaxFaults
    /\ \/ /\ o = "signin"
          /\ lastAlert' = "auth"
          /\ UNCHANGED <<data, stored, storedUser, currentUser, sessionUser,
                         supaSession, currentSector, screen, view,
                         sectorTimerInterval, readyDisabled, faults>>
       \/ /\ o = "profile"
          /\ sessionUser' = u
          /\ supaSession' = u
          /\ faults' = faults + 1
          /\ lastAlert' = "auth"
          /\ UNCHANGED <<data, stored, storedUser, currentUser, currentSector,
                         screen, view, sectorTimerInterval, readyDisabled>>
       \/ /\ o = "ok"
          /\ sessionUser' = u
          /\ supaSession' = u
          /\ data' = WithUser(data, u)
          /\ currentUser' = u
          /\ storedUser' = u
          /\ saveData(data')
          /\ LeaveBoard("welcome")
          /\ lastAlert' = None
          /\ UNCHANGED faults
    /\ UNCHANGED <<now, countdowns, renders, dbTasks, gPause>>

\* form.onsubmit of the registration form.
SubmitRegister(u, o) ==
    /\ UNCHANGED ext
    /\ screen = "auth"
    /\ \/ /\ o = "signup"
          /\ lastAlert' = "auth"
          /\ UNCHANGED <<data, stored, sessionUser, supaSession, currentSector,
                         screen, view, sectorTimerInterval, readyDisabled>>
       \/ /\ o = "ok"
          /\ sessionUser' = u
          /\ supaSession' = u
          /\ data' = WithUser(data, u)
          /\ saveData(data')
          /\ lastAlert' = "created"
          /\ LeaveBoard("auth")
    /\ UNCHANGED <<now, storedUser, currentUser, countdowns, renders, dbTasks,
                   faults, gPause>>

\* logoutBtn click on the welcome screen.
Logout ==
    /\ UNCHANGED ext
    /\ screen = "welcome"
    /\ currentUser' = None
    /\ storedUser' = None
    /\ LeaveBoard("auth")
    /\ lastAlert' = None
    /\ UNCHANGED <<now, data, stored, sessionUser, supaSession, countdowns,
                   renders, dbTasks, faults, gPause>>

\* init() after a page (re)load: timers and suspended calls are gone.
Reload(o) ==
    /\ UNCHANGED ext
    /\ o \in (IF supaSession # None /\ faults < MaxFaults THEN {"ok", "fail"} ELSE {"ok"})
    /\ data' = loadData(stored)
    /\ sessionUser' = IF o = "ok" THEN supaSession ELSE None
    /\ faults' = FaultsAfter(o)
    /\ currentUser' = storedUser
    /\ IF storedUser # None /\ storedUser \in DOMAIN loadData(stored).users
       THEN LeaveBoard("welcome") /\ UNCHANGED storedUser
       ELSE LeaveBoard("auth") /\ storedUser' = None
    /\ countdowns' = {}
    /\ renders' = {}
    /\ lastAlert' = None
    /\ UNCHANGED <<now, stored, supaSession, dbTasks, gPause>>

\* ------------------------------------------------------------ navigation
\* cta click (welcome) and backBtn click (task board): renderSectorSelection.
GoSectorSelection ==
    /\ UNCHANGED ext
    /\ screen \in {"welcome", "tasks"}
    /\ LeaveBoard("sectors")
    /\ lastAlert' = None
    /\ UNCHANGED <<now, data, stored, storedUser, currentUser, sessionUser,
                   supaSession, countdowns, renders, dbTasks, faults, gPause>>

\* backBtn click on sector selection or history: renderWelcome.
BackToWelcome ==
    /\ UNCHANGED ext
    /\ screen \in {"sectors", "history"}
    /\ LeaveBoard("welcome")
    /\ lastAlert' = None
    /\ UNCHANGED <<now, data, stored, storedUser, currentUser, sessionUser,
                   supaSession, countdowns, renders, dbTasks, faults, gPause>>

\* historyBtn click.
ViewHistory ==
    /\ UNCHANGED ext
    /\ screen = "welcome"
    /\ renderHistory
    /\ lastAlert' = None
    /\ UNCHANGED <<now, data, stored, storedUser, currentUser, sessionUser,
                   supaSession, countdowns, renders, dbTasks, faults, gPause>>

\* sector card click.
SelectSector(s) ==
    /\ UNCHANGED ext
    /\ screen = "sectors"
    /\ currentSector' = s
    /\ renderSectorTasks(data, s)
    /\ lastAlert' = None
    /\ UNCHANGED <<now, stored, storedUser, currentUser, sessionUser, supaSession,
                   countdowns, dbTasks, faults, gPause>>

\* History: the started tasks that the pull of this step replaced by
\* something else than they were, or dropped, are marked.
PullAltered ==
    [x \in DOMAIN gPause |->
        IF x \in IdsOf(data) /\ (x \notin IdsOf(data') \/ TaskOf(data', x) # TaskOf(data, x))
        THEN [gPause[x] EXCEPT !.pulled = TRUE]
        ELSE gPause[x]]

\* A suspended renderSectorTasks resumes: the pull answered (o = "ok") or
\* failed; then the board is mounted over the sectorData captured before.
RenderResume(r, o) ==
    /\ UNCHANGED ext
    /\ r \in renders
    /\ o \in (IF faults < MaxFaults THEN {"ok", "fail"} ELSE {"ok"})
    /\ faults' = FaultsAfter(o)
    /\ renders' = renders \ {r}
    /\ data' = SetSector(data, r.path,
                         syncTasksFromSupabase(o, r.uid, r.path, SectorAt(data, r.path)))
    /\ Mount(data', r.path)
    /\ gPause' = PullAltered
    /\ UNCHANGED <<now, stored, storedUser, currentUser, sessionUser, supaSession,
                   currentSector, countdowns, dbTasks>>
    /\ lastAlert' = None

\* ------------------------------------------------------------ task board
\* The handlers below are closures of the mounted board: they act on the
\* sectorData p captured by the render that mounted it.  The modelled user
\* works on a board only while it is the board of currentUser's
\* currentSector; a board mounted by a render that resumed after the user
\* had navigated on is left through its back button.
OnBoard(p) ==
    /\ screen = "tasks" /\ p \in view
    /\ p.user = currentUser /\ p.sector = currentSector

Touchable(p) == 1..Len(SectorAt(data, p).tasks)

Rejected(msg) ==
    /\ lastAlert' = msg
    /\ UNCHANGED <<now, data, stored, storedUser, currentUser, sessionUser,
                   supaSession, currentSector, screen, view, sectorTimerInterval,
                   countdowns, renders, dbTasks, faults, readyDisabled, gPause>>

\* The early returns of the add handler and of the remove handler, each
\* preceded by a faulty variant that the properties below tell apart from
\* it: a handler that never looks at startTime, a limit test off by one.
SectorStartedIgnored(sec) == FALSE

SectorStarted(sec) == Truthy(sec.startTime)

AddRefusedLate(sec) == Len(sec.tasks) > MAX_TASKS

AddRefused(sec) == Len(sec.tasks) >= MAX_TASKS

RemoveRefusedLate(sec) == Len(sec.tasks) < MIN_TASKS

RemoveRefused(sec) == Len(sec.tasks) <= MIN_TASKS

\* addBtn click.  cap bounds how many tasks the modelled user puts in a
\* sector; the code's own limit is MAX_TASKS.
AddTask(p, o, cap) ==
    /\ UNCHANGED ext
    /\ OnBoard(p)
    /\ LET sec == SectorAt(data, p)
       IN  IF SectorStarted(sec) THEN Rejected("add_started")
           ELSE IF AddRefused(sec) THEN Rejected("max_tasks")
           ELSE /\ FreshIds # {}
                /\ Len(sec.tasks) < cap
                /\ o \in PushOutcomes
                /\ LET newTask == NewTask(FreshId)
                       d == SetSector(data, p, [sec EXCEPT !.tasks = Append(@, newTask)])
                   IN  /\ saveData(d)
                       /\ dbTasks' = saveTaskToSupabase(o, getTodayKey, currentSector, newTask)
                       /\ gPause' = [x \in (DOMAIN gPause) \ {newTask.id} |-> gPause[x]]
                       /\ renderSectorTasks(d, currentSector)
                /\ faults' = FaultsAfter(o)
                /\ lastAlert' = None
                /\ UNCHANGED <<now, storedUser, currentUser, sessionUser, supaSession,
                               currentSector, countdowns>>

\* removeBtn click.
RemoveTask(p, o) ==
    /\ UNCHANGED ext
    /\ OnBoard(p)
    /\ LET sec == SectorAt(data, p)
       IN  IF SectorStarted(sec) THEN Rejected("remove_started")
           ELSE IF RemoveRefused(sec) THEN Rejected("min_tasks")
           ELSE /\ o \in PushOutcomes
                /\ LET removedTask == sec.tasks[Len(sec.tasks)]
                       d == SetSector(data, p,
                              [sec EXCEPT !.tasks = SubSeq(@, 1, Len(@) - 1)])
                   IN  /\ saveData(d)
                       /\ dbTasks' = deleteTaskFromSupabase(o, removedTask.id)
                       /\ renderSectorTasks(d, currentSector)
                /\ faults' = FaultsAfter(o)
                /\ lastAlert' = None
                /\ UNCHANGED <<now, storedUser, currentUser, sessionUser, supaSession,
                               currentSector, countdowns, gPause>>

\* readyBtn click: below the minimum it alerts, otherwise it disables the
\* button and starts the ignition countdown.
Ready(p) ==
    /\ UNCHANGED ext
    /\ OnBoard(p)
    /\ ~readyDisabled
    /\ IF Len(SectorAt(data, p).tasks) < MIN_TASKS THEN Rejected("need_min")
       ELSE /\ readyDisabled' = TRUE
            /\ countdowns' = countdowns \cup {p}
            /\ lastAlert' = None
            /\ UNCHANGED <<now, data, stored, storedUser, currentUser, sessionUser,
                           supaSession, currentSector, screen, view,
                           sectorTimerInterval, renders, dbTasks, faults, gPause>>

\* The callback startCountdown invokes when the ignition sequence ends.
CountdownDone(p) ==
    /\ UNCHANGED ext
    /\ p \in countdowns
    /\ countdowns' = countdowns \ {p}
    /\ data' = SetSector(data, p, [SectorAt(data, p) EXCEPT !.startTime = now])
    /\ saveData(data')
    /\ sectorTimerInterval' = setInterval(clearInterval(sectorTimerInterval), p)
    /\ UNCHANGED <<now, storedUser, currentUser, sessionUser, supaSession,
                   currentSector, screen, view, renders, dbTasks, faults,
                   readyDisabled, gPause>>
    /\ lastAlert' = None

\* A poll that goes on after the sector's time is up.
updateSectorTimerIdle(p) ==
    /\ UNCHANGED ext
    /\ p \in sectorTimerInterval
    /\ UNCHANGED <<now, data, stored, storedUser, currentUser, sessionUser,
                   supaSession, currentSector, screen, view, sectorTimerInterval,
                   countdowns, renders, dbTasks, faults, readyDisabled, gPause>>
    /\ lastAlert' = None

\* One firing of the 1-second poll: updateSectorTimer of the armed closure.
updateSectorTimer(p) ==
    /\ UNCHANGED ext
    /\ p \in sectorTimerInterval
    /\ LET st == SectorAt(data, p).startTime
       IN  IF Truthy(st) /\ SECTOR_DURATION_MS - (now - st) <= 0
           THEN sectorTimerInterval' = {}
           ELSE UNCHANGED sectorTimerInterval
    /\ UNCHANGED <<now, data, stored, storedUser, currentUser, sessionUser,
                   supaSession, currentSector, screen, view, countdowns, renders,
                   dbTasks, faults, readyDisabled, gPause>>
    /\ lastAlert' = None

\* A task handler that changed task i of sectorData p into t: saveData,
\* push the task (request outcome o), redraw the rows.
TaskChanged(p, i, t, o) ==
    /\ o \in PushOutcomes
    /\ data' = SetTask(data, p, i, t)
    /\ saveData(data')
    /\ dbTasks' = saveTaskToSupabase(o, getTodayKey, currentSector, t)
    /\ faults' = FaultsAfter(o)
    /\ lastAlert' = None

\* A handler that returned without an alert and without a change.
Ignored == Rejected(None)

\* Faulty variants of DrainPause: the interval is dropped; the interval is
\* measured from the task's start instead of from the begin of the pause.
DrainPauseDropped(task) == [task EXCEPT !.pauseStart = Null]

DrainPauseFromStart(task) ==
    IF Truthy(task.pauseStart)
    THEN [task EXCEPT !.pauseDuration = @ + (now - task.startTime),
                      !.pauseStart = Null]
    ELSE task

\* The resume branch: the pause interval is added only if pauseStart is set.
DrainPause(task) ==
    IF Truthy(task.pauseStart)
    THEN [task EXCEPT !.pauseDuration = @ + (now - task.pauseStart),
                      !.pauseStart = Null]
    ELSE task

\* History of the time a task really spent paused.
\* gPause[id].sum is the length of the closed pause intervals of task id
\* since it was started, gPause[id].since the begin of the open one, and
\* gPause[id].pulled tells whether a pull has altered the task since.
PauseCleared(id) ==
    [x \in (DOMAIN gPause) \cup {id} |->
        IF x = id THEN [sum |-> 0, since |-> Null, pulled |-> FALSE] ELSE gPause[x]]

PauseBegins(id) ==
    IF id \in DOMAIN gPause THEN [gPause EXCEPT ![id].since = now] ELSE gPause

PauseEnds(id) ==
    IF id \in DOMAIN gPause /\ gPause[id].since # Null
    THEN [gPause EXCEPT ![id].sum = @ + (now - gPause[id].since), ![id].since = Null]
    ELSE gPause

\* startBtn click on row i.
StartTask(p, i, o) ==
    /\ UNCHANGED ext
    /\ OnBoard(p)
    /\ i \in Touchable(p)
    /\ LET sec == SectorAt(data, p)
           task == sec.tasks[i]
       IN  IF ~Truthy(sec.startTime) THEN Rejected("need_ready")
           ELSE IF task.status = "Finished" THEN Rejected("already_finished")
           ELSE IF task.status = "Not started"
           THEN /\ TaskChanged(p, i, [task EXCEPT !.startTime = now,
                                                  !.pauseDuration = 0,
                                                  !.pauseStart = Null,
                                                  !.status = "Running"], o)
                /\ gPause' = PauseCleared(task.id)
                /\ UNCHANGED <<now, storedUser, currentUser, sessionUser, supaSession,
                               currentSector, screen, view, sectorTimerInterval,
                               countdowns, renders, readyDisabled>>
           ELSE IF task.status = "Paused"
           THEN /\ TaskChanged(p, i, [DrainPause(task) EXCEPT !.status = "Running"], o)
                /\ gPause' = PauseEnds(task.id)
                /\ UNCHANGED <<now, storedUser, currentUser, sessionUser, supaSession,
                               currentSector, screen, view, sectorTimerInterval,
                               countdowns, renders, readyDisabled>>
           ELSE Ignored

StopResets(task) ==
    [task EXCEPT !.status = "Not started", !.startTime = Null,
                 !.pauseDuration = 0, !.pauseStart = Null,
                 !.endTime = Null, !.duration = Null]

\* The statuses in which stopBtn returns at once.
StopIgnores(task) == task.status = "Not started"

\* stopBtn click on row i.
StopTask(p, i, o) ==
    /\ UNCHANGED ext
    /\ OnBoard(p)
    /\ i \in Touchable(p)
    /\ LET task == SectorAt(data, p).tasks[i]
       IN  IF StopIgnores(task) THEN Ignored
           ELSE /\ TaskChanged(p, i, StopResets(task), o)
                /\ gPause' = PauseCleared(task.id)
                /\ UNCHANGED <<now, storedUser, currentUser, sessionUser, supaSession,
                               currentSector, screen, view, sectorTimerInterval,
                               countdowns, renders, readyDisabled>>

\* pitBtn click on row i.
PitStop(p, i, o) ==
    /\ UNCHANGED ext
    /\ OnBoard(p)
    /\ i \in Touchable(p)
    /\ LET task == SectorAt(data, p).tasks[i]
       IN  IF task.status # "Running" THEN Ignored
           ELSE /\ TaskChanged(p, i, [task EXCEPT !.status = "Paused",
                                                  !.pauseStart = now], o)
                /\ gPause' = PauseBegins(task.id)
                /\ UNCHANGED <<now, storedUser, currentUser, sessionUser, supaSession,
                               currentSector, screen, view, sectorTimerInterval,
                               countdowns, renders, readyDisabled>>

\* The task as finishBtn leaves it.
Finished(task) ==
    LET t1 == IF task.status = "Paused" THEN DrainPause(task) ELSE task
    IN  [t1 EXCEPT !.endTime = now,
                   !.duration = Max(0, now - t1.startTime - t1.pauseDuration),
                   !.status = "Finished"]

allDone(sec) ==
    Len(sec.tasks) > 0 /\ \A k \in 1..Len(sec.tasks) : sec.tasks[k].status = "Finished"

\* supa.from('profiles').update(...).eq(...).catch(...) in the finish
\* handler, reached with a backend identity only.  The query builder comes
\* with the hosted client's library, which the page loads and the sources
\* do not hold: where the builder is a thenable without a catch method the
\* call throws and the handler ends there, elsewhere the handler goes on.
ProfileUpdateThrows == IF sessionUser # None THEN {FALSE, TRUE} ELSE {FALSE}

\* formatDuration(ms), as the whole seconds it prints; a negative time
\* prints as 00:00.
formatDuration(ms) == IF ms < 0 THEN 0 ELSE ms \div 1000

\* The time computeElapsed hands to formatDuration at time t.
elapsed(task, t) ==
    IF task.status = "Running" THEN t - task.startTime - task.pauseDuration
    ELSE IF task.status = "Paused"
    THEN IF Truthy(task.pauseStart)
         THEN task.pauseStart - task.startTime - task.pauseDuration ELSE 0
    ELSE IF task.status = "Finished" THEN OrElse(task.duration, 0)
    ELSE 0

\* computeElapsed() of a row at time t.
computeElapsed(task, t) ==
    IF task.status = "Not started" THEN 0 ELSE formatDuration(elapsed(task, t))

\* The points of the user after a finish, preceded by a faulty variant that
\* awards a point for each minute of the sector.
AwardedPerMinute(points) == OrElse(points, 0) + SECTOR_DURATION_MS \div 60000

Awarded(points) == OrElse(points, 0) + POINTS_PER_TASK

\* The status in which finishBtn returns at once, preceded by a faulty
\* variant that finishes a finished task again.
FinishIgnoresNothing(task) == FALSE

FinishIgnores(task) == task.status = "Finished"

\* finishBtn click on row i.
FinishTask(p, i, o) ==
    /\ UNCHANGED ext
    /\ OnBoard(p)
    /\ i \in Touchable(p)
    /\ LET task == SectorAt(data, p).tasks[i]
       IN  IF FinishIgnores(task) THEN Ignored
           ELSE IF task.status = "Not started" THEN Rejected("start_first")
           ELSE /\ data.users[currentUser].points < MaxFinishes * POINTS_PER_TASK
                /\ o \in PushOutcomes
                /\ data' = [SetTask(data, p, i, Finished(task)) EXCEPT
                               !.users[currentUser].points = Awarded(@)]
                /\ saveData(data')
                /\ dbTasks' = saveTaskToSupabase(o, getTodayKey, currentSector, Finished(task))
                /\ faults' = FaultsAfter(o)
                /\ lastAlert' = None
                /\ gPause' = PauseEnds(task.id)
                /\ \E thrown \in ProfileUpdateThrows :
                      sectorTimerInterval' =
                          IF ~thrown /\ allDone(SectorAt(data', p))
                          THEN {} ELSE sectorTimerInterval
                /\ UNCHANGED <<now, storedUser, currentUser, sessionUser, supaSession,
                               currentSector, screen, view, countdowns, renders,
                               readyDisabled>>

\* ------------------------------------------------------------------ spec
Outcomes == {"ok", "fail", "skip"}

\* The task machine of one sector in a signed-in tab whose backend requests
\* all succeed: sign-in, page reloads, the way to the board and back to the
\* sector cards, the board's handlers, the timers and the clock.  The
\* modelled user puts MIN_TASKS tasks in the sector.
Next ==
    \/ \E d \in ClockSteps : Tick(d)
    \/ \E u \in Users : SubmitLogin(u, "ok")
    \/ Reload("ok")
    \/ GoSectorSelection
    \/ \E s \in ClickedSectors : SelectSector(s)
    \/ \E r \in renders : RenderResume(r, "ok")
    \/ \E p \in view : AddTask(p, "ok", MIN_TASKS)
    \/ \E p \in view : Ready(p)
    \/ \E p \in countdowns : CountdownDone(p)
    \/ \E p \in sectorTimerInterval : updateSectorTimer(p)
    \/ \E p \in view, i \in ClickedRows : StartTask(p, i, "ok")
    \/ \E p \in view, i \in ClickedRows : PitStop(p, i, "ok")
    \/ \E p \in view, i \in ClickedRows : StopTask(p, i, "ok")
    \/ \E p \in view, i \in ClickedRows : FinishTask(p, i, "ok")

Spec == Init /\ [][Next]_vars

\* The same machine with backend requests that can fail.
NextLossy ==
    \/ Next
    \/ \E r \in renders : RenderResume(r, "fail")
    \/ \E p \in view : AddTask(p, "fail", MIN_TASKS)
    \/ \E p \in view, i \in ClickedRows : StartTask(p, i, "fail")
    \/ \E p \in view, i \in ClickedRows : PitStop(p, i, "fail")
    \/ \E p \in view, i \in ClickedRows : StopTask(p, i, "fail")
    \/ \E p \in view, i \in ClickedRows : FinishTask(p, i, "fail")

SpecLossy == Init /\ [][NextLossy]_vars

\* A board that is set up and started on a clock that runs past midnight.
NextNight ==
    \/ Midnight
    \/ \E u \in Users : SubmitLogin(u, "ok")
    \/ GoSectorSelection
    \/ \E s \in ClickedSectors : SelectSector(s)
    \/ \E r \in renders : RenderResume(r, "ok")
    \/ \E p \in view : AddTask(p, "ok", MIN_TASKS)
    \/ \E p \in view : Ready(p)
    \/ \E p \in countdowns : CountdownDone(p)
    \/ \E p \in sectorTimerInterval : updateSectorTimer(p)
    \/ \E p \in view, i \in ClickedRows : StartTask(p, i, "ok")

SpecNight == Init /\ [][NextNight]_vars

\* A sector that runs out of time: sectors are set up and started in the
\* first MaxTime milliseconds, the clock then runs on for the length of a
\* sector while the board's controls are used.  The clock does advance and
\* an armed poll does fire.
NextExpiry ==
    \/ Elapse
    \/ \E u \in Users : SubmitLogin(u, "ok")
    \/ GoSectorSelection
    \/ \E s \in ClickedSectors : SelectSector(s)
    \/ \E r \in renders : RenderResume(r, "ok")
    \/ \E p \in view : AddTask(p, "ok", MIN_TASKS)
    \/ \E p \in view : now <= MaxTime /\ Ready(p)
    \/ \E p \in countdowns : now <= MaxTime /\ CountdownDone(p)
    \/ \E p \in sectorTimerInterval : updateSectorTimer(p)
    \/ \E p \in view, i \in ClickedRows : StartTask(p, i, "ok")
    \/ \E p \in view, i \in ClickedRows : PitStop(p, i, "ok")
    \/ \E p \in view, i \in ClickedRows : FinishTask(p, i, "ok")

SpecExpiry ==
    /\ Init /\ [][NextExpiry]_vars
    /\ WF_vars(Elapse)
    /\ WF_vars(\E p \in sectorTimerInterval : updateSectorTimer(p))

\* A sector worked to the end: every row of a sector of MIN_TASKS tasks is
\* started, paused and finished by a signed-in user.  The clock stands
\* still.
NextFinish ==
    \/ \E u \in Users : SubmitLogin(u, "ok")
    \/ GoSectorSelection
    \/ \E s \in ClickedSectors : SelectSector(s)
    \/ \E r \in renders : RenderResume(r, "ok")
    \/ \E p \in view : AddTask(p, "ok", MIN_TASKS)
    \/ \E p \in view : Ready(p)
    \/ \E p \in countdowns : CountdownDone(p)
    \/ \E p \in sectorTimerInterval : updateSectorTimer(p)
    \/ \E p \in view, i \in 1..MIN_TASKS : StartTask(p, i, "ok")
    \/ \E p \in view, i \in 1..MIN_TASKS : PitStop(p, i, "ok")
    \/ \E p \in view, i \in 1..MIN_TASKS : FinishTask(p, i, "ok")

SpecFinish == Init /\ [][NextFinish]_vars

\* ------------------------------------------------------- tabs, friends
\* Array.prototype.includes, and the guarded push of addFriendLocal preceded
\* by a faulty variant that pushes without looking.
Includes(list, x) == \E i \in 1..Len(list) : list[i] = x

PushAlways(list, x) == Append(list, x)

PushNew(list, x) == IF Includes(list, x) THEN list ELSE Append(list, x)

\* indexOf and splice(idx, 1): the first x leaves the list.
SpliceFirst(list, x) ==
    IF ~Includes(list, x) THEN list
    ELSE LET idx == CHOOSE i \in 1..Len(list) :
                        list[i] = x /\ \A j \in 1..(i - 1) : list[j] # x
         IN  SubSeq(list, 1, idx - 1) \o SubSeq(list, idx + 1, Len(list))

\* addFriendLocal(friend) throws in ensureUserSocialData, before it has
\* changed anything, when the document has no record of friend.
Throws(doc, friend) == friend \notin DOMAIN doc.users

\* A faulty addFriendLocal that enters the friend in the list of
\* currentUser only.
addFriendLocalOneWay(doc, user, friend) ==
    IF Throws(doc, friend) THEN doc
    ELSE LET d1 == [doc EXCEPT !.users[user].friends = PushNew(@, friend)]
             d3 == [d1 EXCEPT !.users[user].friendRequests = SpliceFirst(@, friend)]
         IN  [d3 EXCEPT !.users[friend].friendRequests = SpliceFirst(@, user)]

\* The document addFriendLocal(friend) leaves (and saves) when user is
\* currentUser.
addFriendLocal(doc, user, friend) ==
    IF Throws(doc, friend) THEN doc
    ELSE LET d1 == [doc EXCEPT !.users[user].friends = PushNew(@, friend)]
             d2 == [d1 EXCEPT !.users[friend].friends = PushNew(@, user)]
             d3 == [d2 EXCEPT !.users[user].friendRequests = SpliceFirst(@, friend)]
         IN  [d3 EXCEPT !.users[friend].friendRequests = SpliceFirst(@, user)]

SocialUsers == {"alice", "bob"}

Msg(type, from, to, dest) == [type |-> type, from |-> from, to |-> to, dest |-> dest]

\* channel.postMessage from tab t: one delivery for every other open tab.
Post(t, type, from, to) ==
    channel \cup {Msg(type, from, to, d) : d \in {x \in Tabs \ {t} : tabs[x].open}}

\* What the steps of the further tabs leave alone; the messages in flight
\* are bounded.
TabFrame ==
    /\ Cardinality(channel') <= MaxInFlight
    /\ lastAlert' = None
    /\ UNCHANGED <<now, data, currentUser, sessionUser, supaSession, currentSector,
                   screen, view, sectorTimerInterval, countdowns, renders, dbTasks,
                   faults, readyDisabled, gPause, leaderboard>>

\* init() in a tab that is opened: the stored document is loaded; a stored
\* user with a record is welcomed and announced.
TabOpen(t) ==
    /\ ~tabs[t].open
    /\ LET known == storedUser # None /\ storedUser \in DOMAIN loadData(stored).users
       IN  /\ tabs' = [tabs EXCEPT ![t] =
                          [open |-> TRUE, data |-> loadData(stored),
                           currentUser |-> IF known THEN storedUser ELSE None,
                           onlineUsers |-> {}]]
           /\ storedUser' = IF known THEN storedUser ELSE None
           /\ channel' = IF known THEN Post(t, "online", storedUser, None) ELSE channel
    /\ gShake' = NoShake
    /\ UNCHANGED stored
    /\ TabFrame

\* A sign-in that the backend accepted, in tab t: the record is created if
\* the tab's document has none, the document saved, the user announced.
TabLogin(t, u) ==
    /\ tabs[t].open /\ tabs[t].currentUser = None
    /\ tabs' = [tabs EXCEPT ![t].data = WithUser(@, u), ![t].currentUser = u]
    /\ storedUser' = u
    /\ saveData(tabs'[t].data)
    /\ channel' = Post(t, "online", u, None)
    /\ gShake' = NoShake
    /\ TabFrame

\* logoutBtn click in tab t.
TabLogout(t) ==
    /\ tabs[t].open /\ tabs[t].currentUser # None
    /\ channel' = Post(t, "offline", tabs[t].currentUser, None)
    /\ tabs' = [tabs EXCEPT ![t].currentUser = None]
    /\ storedUser' = None
    /\ gShake' = NoShake
    /\ UNCHANGED stored
    /\ TabFrame

\* addBtn click in tab t on the row of online user to.
SendRequest(t, to) ==
    /\ tabs[t].open /\ tabs[t].currentUser # None
    /\ to \in tabs[t].onlineUsers /\ to # tabs[t].currentUser
    /\ ~Includes(tabs[t].data.users[tabs[t].currentUser].friends, to)
    /\ channel' = Post(t, "friendRequest", tabs[t].currentUser, to)
    /\ gShake' = [from |-> tabs[t].currentUser, to |-> to, stage |-> "sent"]
    /\ UNCHANGED <<tabs, stored, storedUser>>
    /\ TabFrame

\* acceptBtn click in tab t on the row of request reqUser: nothing is
\* posted when addFriendLocal throws.
Accept(t, reqUser) ==
    /\ tabs[t].open /\ tabs[t].currentUser # None
    /\ Includes(tabs[t].data.users[tabs[t].currentUser].friendRequests, reqUser)
    /\ IF Throws(tabs[t].data, reqUser)
       THEN UNCHANGED <<tabs, stored, channel>> /\ gShake' = NoShake
       ELSE /\ tabs' = [tabs EXCEPT ![t].data =
                           addFriendLocal(@, tabs[t].currentUser, reqUser)]
            /\ saveData(tabs'[t].data)
            /\ channel' = Post(t, "friendAccepted", tabs[t].currentUser, reqUser)
            /\ gShake' = IF /\ gShake.stage = "received"
                            /\ gShake.from = reqUser /\ gShake.to = tabs[t].currentUser
                         THEN [gShake EXCEPT !.stage = "accepted"] ELSE NoShake
    /\ UNCHANGED storedUser
    /\ TabFrame

\* The test of the friendRequest handler, on the record me of currentUser:
\* not already friends and not already requested.  It is preceded by a
\* faulty variant that takes every request.
RequestTakenAlways(me, from) == TRUE

RequestTaken(me, from) ==
    ~Includes(me.friends, from) /\ ~Includes(me.friendRequests, from)

\* channel.onmessage in tab m.dest for message m.
Deliver(m) ==
    /\ m \in channel
    /\ channel' = channel \ {m}
    /\ LET t  == m.dest
           cu == tabs[t].currentUser
           me == tabs[t].data.users[cu]
       IN  CASE m.type = "online" ->
                  /\ tabs' = [tabs EXCEPT ![t].onlineUsers = @ \cup {m.from}]
                  /\ UNCHANGED <<stored, gShake>>
             [] m.type = "offline" ->
                  /\ tabs' = [tabs EXCEPT ![t].onlineUsers = @ \ {m.from}]
                  /\ UNCHANGED <<stored, gShake>>
             [] m.type = "friendRequest" ->
                  /\ IF m.to = cu /\ RequestTaken(me, m.from)
                     THEN /\ tabs' = [tabs EXCEPT ![t].data.users[cu].friendRequests =
                                         Append(@, m.from)]
                          /\ saveData(tabs'[t].data)
                     ELSE UNCHANGED <<tabs, stored>>
                  /\ gShake' = IF /\ gShake.stage = "sent" /\ m.to = cu
                                  /\ gShake.from = m.from /\ gShake.to = m.to
                               THEN [gShake EXCEPT !.stage = "received"] ELSE NoShake
             [] m.type = "friendAccepted" ->
                  /\ IF m.to = cu /\ ~Throws(tabs[t].data, m.from)
                     THEN /\ tabs' = [tabs EXCEPT ![t].data =
                                         addFriendLocal(@, cu, m.from)]
                          /\ saveData(tabs'[t].data)
                     ELSE UNCHANGED <<tabs, stored>>
                  /\ gShake' = IF /\ gShake.stage = "accepted" /\ m.to = cu
                                  /\ gShake.from = m.to /\ gShake.to = m.from
                               THEN [gShake EXCEPT !.stage = "done"] ELSE NoShake
    /\ UNCHANGED storedUser
    /\ TabFrame

\* Two tabs of one browser and the users who sign in in them.
NextSocial ==
    \/ \E t \in Tabs : TabOpen(t)
    \/ \E t \in Tabs, u \in SocialUsers : TabLogin(t, u)
    \/ \E t \in Tabs : TabLogout(t)
    \/ \E t \in Tabs, u \in SocialUsers : SendRequest(t, u)
    \/ \E t \in Tabs, u \in SocialUsers : Accept(t, u)
    \/ \E m \in channel : Deliver(m)

SpecSocial == Init /\ [][NextSocial]_vars

\* ------------------------------------------------ base variant, auth
\* The variant without backend keeps a password in each user record and
\* signs in against the document.  The form is in the mode its toggle link
\* left it in; an empty field is "".
BaseUsers == {"alice", "bob"}
Passwords == {"pw1", "pw2"}

BaseUser(password) ==
    [password |-> password, records |-> EmptyFn, friends |-> <<>>,
     friendRequests |-> <<>>]

\* The tests of form.onsubmit, each preceded by a faulty variant: any
\* password opens an account, no username counts as taken.
PasswordAny(doc, username, password) == TRUE

PasswordMatches(doc, username, password) ==
    doc.users[username].password = password

TakenNever(doc, username) == FALSE

Taken(doc, username) == username \in DOMAIN doc.users

AuthRejected(msg) ==
    /\ Rejected(msg)
    /\ UNCHANGED leaderboard

\* form.onsubmit with isLogin.
BaseLogin(username, password) ==
    /\ screen = "auth"
    /\ UNCHANGED <<tabs, channel, gShake>>
    /\ IF username = "" \/ password = "" THEN AuthRejected("need_both")
       ELSE IF ~Taken(data, username) THEN AuthRejected("not_found")
       ELSE IF ~PasswordMatches(data, username, password)
       THEN AuthRejected("bad_password")
       ELSE /\ currentUser' = username
            /\ storedUser' = username
            /\ saveData(data)
            /\ LeaveBoard("welcome")
            /\ \E e \in Entries(data) :
                  leaderboard' =
                      [variant |-> "base",
                       rows |-> computeCurrentWeekLeaderboard(data, e, now, FALSE)]
            /\ lastAlert' = None
            /\ UNCHANGED <<now, data, sessionUser, supaSession, countdowns,
                           renders, dbTasks, faults, gPause>>

\* form.onsubmit without isLogin.
BaseRegister(username, password) ==
    /\ screen = "auth"
    /\ UNCHANGED <<tabs, channel, gShake, leaderboard>>
    /\ IF username = "" \/ password = "" THEN Rejected("need_both")
       ELSE IF Taken(data, username) THEN Rejected("exists")
       ELSE /\ data' = [data EXCEPT !.users =
                          [x \in (DOMAIN @) \cup {username} |->
                              IF x = username THEN BaseUser(password) ELSE @[x]]]
            /\ saveData(data')
            /\ LeaveBoard("auth")
            /\ lastAlert' = "created"
            /\ UNCHANGED <<now, storedUser, currentUser, sessionUser, supaSession,
                           countdowns, renders, dbTasks, faults, gPause>>

\* The base variant in one tab: accounts, sign-in and out, reloads and the
\* screens around the welcome screen.
NextBase ==
    \/ \E u \in BaseUsers \cup {""}, pw \in Passwords \cup {""} : BaseLogin(u, pw)
    \/ \E u \in BaseUsers \cup {""}, pw \in Passwords \cup {""} : BaseRegister(u, pw)
    \/ Logout
    \/ Reload("ok")
    \/ GoSectorSelection
    \/ BackToWelcome
    \/ ViewHistory

SpecBase == Init /\ [][NextBase]_vars

\* --------------------------------------------------------------- startup
\* What init() can find in the browser's storage: the document item and the
\* current-user item are shared with the other tabs of the browser, which
\* overwrite them with their own copies, and can be removed or damaged
\* outside the page.
StartupUsers == {"alice", "bob"}

StartupStores ==
    Unreadable \cup {[users |-> [u \in us |-> NewUser]] : us \in SUBSET StartupUsers}

StorageChanged(raw, ptr) ==
    /\ stored' = raw
    /\ storedUser' = ptr
    /\ lastAlert' = None
    /\ UNCHANGED <<now, data, currentUser, sessionUser, supaSession, currentSector,
                   screen, view, sectorTimerInterval, countdowns, renders, dbTasks,
                   faults, readyDisabled, gPause>>
    /\ UNCHANGED ext

\* Page loads over whatever the storage holds, sign-in and out, and the
\* screens around the welcome screen.
NextStartup ==
    \/ \E raw \in StartupStores, ptr \in StartupUsers \cup {None} : StorageChanged(raw, ptr)
    \/ Reload("ok")
    \/ \E u \in Users : SubmitLogin(u, "ok")
    \/ Logout
    \/ GoSectorSelection
    \/ BackToWelcome
    \/ ViewHistory

SpecStartup == Init /\ [][NextStartup]_vars

\* ------------------------------------------------- leaderboard, inputs
\* renderLeaderboard of the variant with points, on the path that computes
\* the results locally (no backend session): the results of
\* computeCurrentWeekLeaderboard, each with the points of its user, sorted
\* again and drawn as rows 1..n.
WithPoints(doc, results) ==
    [i \in 1..Len(results) |->
        [username |-> results[i].username,
         totalTimeMs |-> results[i].totalTimeMs,
         points |-> PointsOf(doc.users[results[i].username])]]

renderLeaderboard(entries) ==
    /\ screen = "welcome" /\ sessionUser = None
    /\ leaderboard' =
          [variant |-> "points",
           rows |-> SortRows(WithPoints(data,
                       computeCurrentWeekLeaderboard(data, entries, now, TRUE)), TRUE)]
    /\ lastAlert' = None
    /\ UNCHANGED <<now, data, stored, storedUser, currentUser, sessionUser,
                   supaSession, currentSector, screen, view, sectorTimerInterval,
                   countdowns, renders, dbTasks, faults, readyDisabled, gPause,
                   tabs, channel, gShake>>

\* renderLeaderboard of the base variant: the results as computed.
renderLeaderboardBase(entries) ==
    /\ screen = "welcome" /\ sessionUser = None
    /\ leaderboard' =
          [variant |-> "base",
           rows |-> computeCurrentWeekLeaderboard(data, entries, now, FALSE)]
    /\ lastAlert' = None
    /\ UNCHANGED <<now, data, stored, storedUser, currentUser, sessionUser,
                   supaSession, currentSector, screen, view, sectorTimerInterval,
                   countdowns, renders, dbTasks, faults, readyDisabled, gPause,
                   tabs, channel, gShake>>

\* The documents the leaderboard is computed from.  A user has worked on
\* some of LeaderDays: Sunday 4, Monday 5, Saturday 10 and Sunday 11
\* January 1970.
LeaderUsers == {"alice", "bob", "carol"}
LeaderDays == {3, 4, 9, 10}
LeaderTodays == {9, 10, 11}
MaxRecords == 3

FinishedTask(id, start, end, dur) ==
    [id |-> id, status |-> "Finished", startTime |-> start, endTime |-> end,
     pauseDuration |-> 0, pauseStart |-> Null, duration |-> dur]

\* A short day: one task finished after 5 ms and one left running.
ShortDay(d) ==
    [sectors |-> (1 :> [startTime |-> d * DAY_MS + 1,
                        tasks |-> <<FinishedTask(1, d * DAY_MS + 1, d * DAY_MS + 6, 5),
                                    [NewTask(2) EXCEPT !.status = "Running",
                                                       !.startTime = d * DAY_MS + 6]>>])]

\* A long day: a task of 3 ms in sector 1; in sector 3 a task finished in
\* the millisecond it was started, its duration lost to a pull, and a task
\* of 4 ms finished after midnight on a board opened that day.
LongDay(d) ==
    [sectors |-> (1 :> [startTime |-> d * DAY_MS + 1,
                        tasks |-> <<FinishedTask(3, d * DAY_MS + 1, d * DAY_MS + 4, 3)>>]
               @@ 3 :> [startTime |-> d * DAY_MS + 5,
                        tasks |-> <<FinishedTask(4, d * DAY_MS + 5, d * DAY_MS + 5, Null),
                                    FinishedTask(5, (d + 1) * DAY_MS - 2,
                                                 (d + 1) * DAY_MS + 2, 4)>>])]

DayShapes(d) == {ShortDay(d), LongDay(d)}

\* The records of a user who worked on at most n of the days in among.
RecordSets(among, n) ==
    UNION {{r \in [days -> UNION {DayShapes(d) : d \in days}] :
               \A d \in days : r[d] \in DayShapes(d)} :
           days \in {x \in SUBSET among : Cardinality(x) <= n}}

LeaderUser(among, n) ==
    {[NewUser EXCEPT !.points = pts, !.records = r] :
        pts \in {0, POINTS_PER_TASK}, r \in RecordSets(among, n)}

\* alice has worked on up to MaxRecords of the days, bob on the Saturday
\* or never, carol on the Monday or never.
LeaderDocs ==
    {[users |-> [u \in LeaderUsers |->
                    IF u = "alice" THEN a ELSE IF u = "bob" THEN b ELSE c]] :
        a \in LeaderUser(LeaderDays, MaxRecords),
        b \in LeaderUser({9}, 1), c \in LeaderUser({4}, 1)}

\* No record and no task of document doc is later than time t.
Past(doc, t) ==
    \A u \in DOMAIN doc.users : \A d \in DOMAIN doc.users[u].records :
        /\ recordDate(d) <= t
        /\ \A x \in AllTasks(doc) :
               x.startTime <= t /\ (x.endTime # Null => x.endTime <= t)

\* A tab reloaded on the welcome screen, without a backend session, over a
\* document of LeaderDocs in the last millisecond of one of LeaderTodays.
InitLeader ==
    /\ now \in {d * DAY_MS + (DAY_MS - 1) : d \in LeaderTodays}
    /\ data \in LeaderDocs
    /\ Past(data, now)
    /\ stored = data
    /\ storedUser = "alice"
    /\ currentUser = "alice"
    /\ sessionUser = None
    /\ supaSession = None
    /\ currentSector = Null
    /\ screen = "welcome"
    /\ view = {}
    /\ sectorTimerInterval = {}
    /\ countdowns = {}
    /\ renders = {}
    /\ dbTasks = <<>>
    /\ faults = 0
    /\ lastAlert = None
    /\ readyDisabled = FALSE
    /\ gPause = EmptyFn
    /\ leaderboard = NoTable
    /\ tabs = [t \in Tabs |-> ClosedTab]
    /\ channel = {}
    /\ gShake = NoShake

NextLeader ==
    \/ \E e \in Entries(data) : renderLeaderboard(e)
    \/ \E e \in Entries(data) : renderLeaderboardBase(e)

SpecLeader == InitLeader /\ [][NextLeader]_vars

\* Setting a sector up: the board's add / remove / ready controls with the
\* code's own task limits and page reloads.  The clock stands still, no task
\* is started and no backend request fails.
NextBoard ==
    \/ \E u \in Users : SubmitLogin(u, "ok")
    \/ Reload("ok")
    \/ GoSectorSelection
    \/ \E s \in ClickedSectors : SelectSector(s)
    \/ \E r \in renders : RenderResume(r, "ok")
    \/ \E p \in view : AddTask(p, "ok", MaxIds)
    \/ \E p \in view : RemoveTask(p, "ok")
    \/ \E p \in view : Ready(p)
    \/ \E p \in countdowns : CountdownDone(p)
    \/ \E p \in sectorTimerInterval : updateSectorTimer(p)

SpecBoard == Init /\ [][NextBoard]_vars

\* Every handler of the tab.
NextAll ==
    \/ NextLossy
    \/ NextBoard
    \/ Reload("fail")
    \/ \E p \in view, o \in Outcomes : AddTask(p, o, MaxIds)
    \/ \E p \in view, o \in Outcomes : RemoveTask(p, o)
    \/ \E p \in view, i \in ClickedRows : StartTask(p, i, "skip")
    \/ \E p \in view, i \in ClickedRows : PitStop(p, i, "skip")
    \/ \E p \in view, i \in ClickedRows : StopTask(p, i, "skip")
    \/ \E p \in view, i \in ClickedRows : FinishTask(p, i, "skip")
    \/ \E u \in Users, o \in {"signin", "profile"} : SubmitLogin(u, o)
    \/ \E u \in Users, o \in {"ok", "signup"} : SubmitRegister(u, o)
    \/ Logout
    \/ BackToWelcome
    \/ ViewHistory

SpecAll == Init /\ [][NextAll]_vars

\* ------------------------------------------------------------ properties
\* Ids of the tasks present before and after a step.
Surviving == IdsOf(data) \cap IdsOf(data')

\* A click on the add / the remove control of the board over sectorData p.
AddClick(p) == \E o \in Outcomes : AddTask(p, o, MaxIds)

RemoveClick(p) == \E o \in Outcomes : RemoveTask(p, o)

Between(n) == MIN_TASKS < n /\ n < MAX_TASKS

\* C1: every Finished task has duration = max(0, endTime - startTime -
\* pauseDuration), where pauseDuration holds all the time the task spent
\* paused, the final pause included.
C1_FinishedDuration ==
    \A t \in AllTasks(data) :
        t.status = "Finished" =>
            /\ t.duration = Max(0, t.endTime - t.startTime - t.pauseDuration)
            /\ t.id \in DOMAIN gPause =>
                   /\ gPause[t.id].since = Null
                   /\ t.pauseDuration = gPause[t.id].sum

\* C2: once Finish has set a task's duration, no later step changes it.
C2_DurationSetOnce ==
    [][\A id \in Surviving :
          TaskOf(data, id).duration # Null =>
              TaskOf(data', id).duration = TaskOf(data, id).duration]_vars

\* C3: a Finished task stays Finished.
C3_FinishedTerminal ==
    [][\A id \in Surviving :
          TaskOf(data, id).status = "Finished" =>
              TaskOf(data', id).status = "Finished"]_vars

\* C4: a started task that only the board's handlers have acted on (no
\* pull has altered it) holds, after each resume or finish, the total length
\* of its pause intervals since it was started in pauseDuration.
C4_PauseAccumulation ==
    \A t \in AllTasks(data) :
        (/\ t.id \in DOMAIN gPause
         /\ ~gPause[t.id].pulled
         /\ t.status \in {"Running", "Finished"}) =>
            t.pauseDuration = gPause[t.id].sum

\* A task was finished out of a pause of positive length.
C4_Witness ==
    \E t \in AllTasks(data) :
        /\ t.id \in DOMAIN gPause /\ ~gPause[t.id].pulled
        /\ t.status = "Finished"
        /\ t.endTime > t.startTime
        /\ t.duration = 0
        /\ t.pauseDuration = gPause[t.id].sum

\* C5 as stated: pauseDuration never shrinks and changes only when a Paused
\* task becomes Running or Finished.
C5_PauseOnlyGrows ==
    [][\A id \in Surviving :
          LET t == TaskOf(data, id)
              u == TaskOf(data', id)
          IN  /\ u.pauseDuration >= t.pauseDuration
              /\ u.pauseDuration # t.pauseDuration =>
                     /\ t.status = "Paused"
                     /\ u.status \in {"Running", "Finished"}]_vars

\* C5 amended: pauseDuration changes only (a) when a Paused task with a
\* pauseStart becomes Running or Finished, growing by exactly now -
\* pauseStart; (b) when Stop resets the task, to 0; (c) when a pull from the
\* backend replaces the task, to the row's pause_ms; (d) when a page reload
\* restores the stored document, to the stored value.
C5_PauseChanges ==
    [][\A id \in Surviving :
          LET t == TaskOf(data, id)
              u == TaskOf(data', id)
          IN  (data' # data /\ u.pauseDuration # t.pauseDuration) =>
                  \/ /\ t.status = "Paused"
                     /\ u.status \in {"Running", "Finished"}
                     /\ Truthy(t.pauseStart)
                     /\ u.pauseDuration = t.pauseDuration + (now - t.pauseStart)
                     /\ u.pauseDuration > t.pauseDuration
                  \/ /\ t.status # "Not started"
                     /\ u = StopResets(t)
                  \/ /\ \E r \in renders : RenderResume(r, "ok")
                     /\ \E k \in 1..Len(dbTasks) :
                            /\ dbTasks[k].id = id
                            /\ u.pauseDuration = dbTasks[k].pause_ms
                  \/ /\ Reload("ok")
                     /\ u.pauseDuration = TaskOf(stored, id).pauseDuration]_vars

\* A resume has added a pause interval of positive length.
C5_Witness ==
    \E t \in AllTasks(data) :
        /\ t.status = "Running"
        /\ t.pauseDuration > 0
        /\ t.pauseDuration = now - t.startTime

\* C6: in a sector that has not started, Add at MAX_TASKS tasks and Remove
\* at MIN_TASKS tasks leave the task list as it is; strictly between the
\* limits Add appends one Not-started task with null timing fields and
\* Remove drops the last task.
C6_LimitsOnEdit ==
    [][\A p \in view :
          LET tasks == SectorAt(data, p).tasks
              after == SectorAt(data', p).tasks
              n     == Len(tasks)
          IN  ~Truthy(SectorAt(data, p).startTime) =>
                /\ (AddClick(p) /\ n = MAX_TASKS) => after = tasks
                /\ (RemoveClick(p) /\ n = MIN_TASKS) => after = tasks
                /\ (AddClick(p) /\ Between(n)) =>
                       /\ Len(after) = n + 1
                       /\ SubSeq(after, 1, n) = tasks
                       /\ after[n + 1] = NewTask(after[n + 1].id)
                       /\ after[n + 1].id \notin IdsOf(data)
                /\ (RemoveClick(p) /\ Between(n)) =>
                       after = SubSeq(tasks, 1, n - 1)]_vars

\* Add has just been refused on a full sector that has not started.
C6_Witness ==
    /\ lastAlert = "max_tasks"
    /\ \E p \in view : /\ Len(SectorAt(data, p).tasks) = MAX_TASKS
                       /\ ~Truthy(SectorAt(data, p).startTime)

\* C7: in a started sector Add and Remove raise an alert and change neither
\* the document, nor the stored document, nor the backend rows.
C7_StartedSectorFrozen ==
    [][\A p \in view :
          (Truthy(SectorAt(data, p).startTime) /\ (AddClick(p) \/ RemoveClick(p))) =>
              /\ lastAlert' \in {"add_started", "remove_started"}
              /\ UNCHANGED <<data, stored, dbTasks>>]_vars

\* Add has just been refused on a started sector that is neither full nor
\* at the minimum.
C7_Witness ==
    /\ lastAlert = "add_started"
    /\ \E p \in view : /\ Between(Len(SectorAt(data, p).tasks))
                       /\ Truthy(SectorAt(data, p).startTime)

\* C8 as stated: every sector that has not started holds between MIN_TASKS and
\* MAX_TASKS tasks.
C8_UnstartedTaskCount ==
    \A p \in SectorPaths(data) :
        ~Truthy(SectorAt(data, p).startTime) =>
            /\ MIN_TASKS <= Len(SectorAt(data, p).tasks)
            /\ Len(SectorAt(data, p).tasks) <= MAX_TASKS

\* C8 amended: a sector record is created empty and not started, so a
\* sector that has not started may hold fewer than MIN_TASKS tasks; the
\* limits are kept by the handlers: a Remove that takes a task away leaves
\* at least MIN_TASKS, an Add that appends one leaves at most MAX_TASKS, and
\* Ready below MIN_TASKS raises an alert and starts no countdown.
C8_LimitsKeptByHandlers ==
    [][/\ \A p \in SectorPaths(data') \ SectorPaths(data) :
              SectorAt(data', p) = [startTime |-> Null, tasks |-> <<>>]
       /\ \A p \in view :
              LET n == Len(SectorAt(data, p).tasks)
                  m == Len(SectorAt(data', p).tasks)
              IN  ~Truthy(SectorAt(data, p).startTime) =>
                    /\ (RemoveClick(p) /\ m < n) => m >= MIN_TASKS
                    /\ (AddClick(p) /\ m > n) => m <= MAX_TASKS
                    /\ (Ready(p) /\ n < MIN_TASKS) =>
                           /\ countdowns' = countdowns
                           /\ lastAlert' = "need_min"]_vars

\* Ready has just been refused on a freshly created, empty sector.
C8_Witness ==
    /\ lastAlert = "need_min"
    /\ \E p \in view : /\ SectorAt(data, p).tasks = <<>>
                       /\ ~Truthy(SectorAt(data, p).startTime)

\* C9: a sector's startTime, once set, is never assigned again.
C9_StartTimeSetOnce ==
    [][\A p \in SectorPaths(data) :
          Truthy(SectorAt(data, p).startTime) =>
              SectorAt(data', p).startTime = SectorAt(data, p).startTime]_vars

\* C10: once a sector has started, the sequence of its task ids never
\* changes.
C10_TaskIdsFrozen ==
    [][\A p \in SectorPaths(data) :
          Truthy(SectorAt(data, p).startTime) =>
              [i \in 1..Len(SectorAt(data', p).tasks) |-> SectorAt(data', p).tasks[i].id]
                = [i \in 1..Len(SectorAt(data, p).tasks) |-> SectorAt(data, p).tasks[i].id]]_vars

\* A click on the start control of row i of the board over sectorData p.
StartClick(p, i) == \E o \in Outcomes : StartTask(p, i, o)

Started == {"Running", "Paused", "Finished"}

\* Every started task lies in a sector that was started.
StartedTasksInStartedSectors ==
    \A p \in SectorPaths(data) :
        \A i \in 1..Len(SectorAt(data, p).tasks) :
            SectorAt(data, p).tasks[i].status \in Started =>
                Truthy(SectorAt(data, p).startTime)

\* C11: every Running, Paused or Finished task belongs to a sector whose
\* startTime is set, and the start control of a task in a sector that was
\* not started changes neither the document, the stored document nor the
\* backend rows.
C11_StartNeedsStartedSector ==
    /\ []StartedTasksInStartedSectors
    /\ [][\A p \in view, i \in ClickedRows :
            (StartClick(p, i) /\ ~Truthy(SectorAt(data, p).startTime)) =>
                (lastAlert' = "need_ready" /\ UNCHANGED <<data, stored, dbTasks>>)]_vars

\* ------------------------------------------------------------ leaderboard
\* The days Monday..Saturday of the week of today, on a Sunday those of the
\* week that ends with it: day 4 (5 January 1970) is a Monday.
WeekDays ==
    LET t == now \div DAY_MS
        m == CHOOSE x \in (t - 6)..t : x % 7 = 4
    IN  m..(m + 5)

\* The Finished tasks of user u in the records of the days in days, each
\* named by day, sector and row.
FinishedIn(u, days) ==
    LET recs == data.users[u].records
    IN  UNION {UNION {{<<d, n, i>> : i \in {j \in 1..Len(recs[d].sectors[n].tasks) :
                                            recs[d].sectors[n].tasks[j].status = "Finished"}} :
                      n \in (1..3) \cap DOMAIN recs[d].sectors} :
               d \in days \cap DOMAIN recs}

TaskAt(u, x) == data.users[u].records[x[1]].sectors[x[2]].tasks[x[3]]

RECURSIVE SumOfDurations(_, _)
SumOfDurations(u, items) ==
    IF items = {} THEN 0
    ELSE LET x == CHOOSE y \in items : TRUE
         IN  (IF TaskAt(u, x).duration = Null THEN 0 ELSE TaskAt(u, x).duration)
             + SumOfDurations(u, items \ {x})

WeekSum(u) == SumOfDurations(u, FinishedIn(u, WeekDays))

\* C12: the total the leaderboard shows for a user is the sum of duration
\* over that user's Finished tasks, sectors 1..3, in the records dated
\* Monday..Saturday of the current week (on a Sunday, of the week just
\* ended); Sunday records and records of other weeks add nothing.
C12_WeeklyTotal ==
    \A i \in 1..Len(leaderboard.rows) :
        leaderboard.rows[i].totalTimeMs = WeekSum(leaderboard.rows[i].username)

\* On a Sunday, a row adds up two records of the week just ended and leaves
\* out what its user did on that Sunday and on the Sunday before.
C12_Witness ==
    /\ (now \div DAY_MS) % 7 = 3
    /\ \E i \in 1..Len(leaderboard.rows) :
          LET u == leaderboard.rows[i].username
          IN  /\ Cardinality(WeekDays \cap DOMAIN data.users[u].records) = 2
              /\ leaderboard.rows[i].totalTimeMs > 0
              /\ \E d \in DOMAIN data.users[u].records :
                     d \notin WeekDays /\ FinishedIn(u, {d}) # {}

\* The Finished tasks of user u, of any record, that ended inside Monday
\* 00:00:00.000 .. Saturday 23:59:59.999 of WeekDays.
EndedInWeek(u) ==
    {x \in FinishedIn(u, DOMAIN data.users[u].records) :
        \E d \in WeekDays :
            d * DAY_MS <= TaskAt(u, x).endTime /\ TaskAt(u, x).endTime < (d + 1) * DAY_MS}

\* C13: the total of a row counts a Finished task only if the task ended
\* inside the Monday 00:00:00 - Saturday 23:59:59.999 window: it holds no
\* more than the durations of the tasks that ended there, so a task
\* finished on Sunday after midnight on a board opened on Saturday adds
\* nothing.
C13_CountedByEndTime ==
    \A i \in 1..Len(leaderboard.rows) :
        leaderboard.rows[i].totalTimeMs
            <= SumOfDurations(leaderboard.rows[i].username,
                              EndedInWeek(leaderboard.rows[i].username))

\* The rows of the table that name user u.
RowsOf(u) == {i \in 1..Len(leaderboard.rows) : leaderboard.rows[i].username = u}

C15_DisplayedOrder ==
    \A i, j \in 1..Len(leaderboard.rows) :
        i < j =>
            LET a == leaderboard.rows[i]
                b == leaderboard.rows[j]
            IN  IF leaderboard.variant = "base"
                THEN WeekSum(a.username) <= WeekSum(b.username)
                ELSE LET pa == data.users[a.username].points
                         pb == data.users[b.username].points
                     IN  \/ pa > pb
                         \/ pa = pb /\ WeekSum(a.username) <= WeekSum(b.username)

\* Three rows of the variant with points: the first has more points and a
\* longer week than the second, the last two tie on points.
C15_Witness ==
    /\ leaderboard.variant = "points"
    /\ Len(leaderboard.rows) = 3
    /\ leaderboard.rows[1].points > leaderboard.rows[2].points
    /\ leaderboard.rows[1].totalTimeMs > leaderboard.rows[2].totalTimeMs
    /\ leaderboard.rows[2].points = leaderboard.rows[3].points
    /\ leaderboard.rows[2].totalTimeMs < leaderboard.rows[3].totalTimeMs

\* -------------------------------------------------------------- accounts
\* What a submit of the auth form may change.
AccountState == <<data, stored, currentUser, storedUser, screen>>

\* C16: in the base variant a sign-in is accepted only when the username
\* has a record and the password equals the stored one; a sign-in with a
\* wrong password leaves currentUser null, the stored user pointer, the
\* document and its stored copy as they were and the auth screen up.
C16_WrongPasswordRejected ==
    [][\A u \in BaseUsers \cup {""}, pw \in Passwords \cup {""} :
          BaseLogin(u, pw) =>
              IF u \in DOMAIN data.users /\ data.users[u].password = pw
              THEN currentUser' = u /\ storedUser' = u /\ screen' = "welcome"
              ELSE /\ UNCHANGED AccountState
                   /\ currentUser' = None /\ screen' = "auth"]_vars

\* A sign-in was just refused for its password.
C16_Witness == lastAlert = "bad_password" /\ currentUser = None

\* C17: in the base variant a registration with a username that has a
\* record, or with an empty username or password, changes nothing: the
\* existing record, the document, its stored copy, the user and the screen
\* stay as they were.
C17_DuplicateRegistrationRejected ==
    [][\A u \in BaseUsers \cup {""}, pw \in Passwords \cup {""} :
          (BaseRegister(u, pw) /\ (u \in DOMAIN data.users \/ u = "" \/ pw = "")) =>
              UNCHANGED AccountState]_vars

\* A registration was just refused for its username, under another
\* password than the one on record.
C17_Witness ==
    /\ lastAlert = "exists"
    /\ \E u \in DOMAIN data.users : data.users[u].password = "pw2"

\* --------------------------------------------------------------- friends
\* In document doc users a and b are friends of each other and neither has
\* a request of the other pending.
Befriended(doc, a, b) ==
    /\ {a, b} \subseteq DOMAIN doc.users
    /\ Includes(doc.users[a].friends, b) /\ Includes(doc.users[b].friends, a)
    /\ ~Includes(doc.users[a].friendRequests, b)
    /\ ~Includes(doc.users[b].friendRequests, a)

\* C18: once a friend request of A, signed in in one tab, was delivered to
\* B, signed in in another, B has accepted it and the acceptance was
\* delivered to A, the document of both tabs and the stored document hold A
\* and B as friends of each other with no request between them pending.
C18_FriendshipMutual ==
    gShake.stage = "done" =>
        /\ Befriended(stored, gShake.from, gShake.to)
        /\ \A t \in Tabs :
              tabs[t].currentUser \in {gShake.from, gShake.to} =>
                  Befriended(tabs[t].data, gShake.from, gShake.to)

\* The documents held anywhere: by a tab or in the store.
Documents == {stored} \cup {tabs[t].data : t \in {x \in Tabs : tabs[x].open}}

NoDuplicates(list) == \A i, j \in 1..Len(list) : list[i] = list[j] => i = j

\* C19: addFriendLocal(f) applied a second time changes nothing, whoever
\* the signed-in user and whoever f, and no friends list names a user
\* twice.
C19_AddFriendIdempotent ==
    /\ \A t \in Tabs, f \in SocialUsers :
          tabs[t].currentUser # None =>
              LET once == addFriendLocal(tabs[t].data, tabs[t].currentUser, f)
              IN  addFriendLocal(once, tabs[t].currentUser, f) = once
    /\ \A doc \in Documents : \A u \in DOMAIN doc.users :
          NoDuplicates(doc.users[u].friends)

\* A tab has saved a document in which addFriendLocal made its user and
\* another friends.
C19_Witness ==
    \E t \in Tabs, f \in SocialUsers :
        /\ tabs[t].currentUser # None /\ f # tabs[t].currentUser
        /\ Befriended(tabs[t].data, tabs[t].currentUser, f)
        /\ stored = tabs[t].data

\* C20: no step takes a user record out of the stored document, whichever
\* tab saves its copy.
C20_RecordsNeverDeleted ==
    [][DOMAIN stored.users \subseteq DOMAIN stored'.users]_vars

\* C21: writes from several tabs are last-write-wins: whenever the stored
\* document changes, it becomes exactly the in-memory document of an open
\* tab, so a tab holding an older copy overwrites what another tab wrote.
C21_LastWriteWins ==
    [][stored' # stored =>
         \E t \in Tabs : /\ tabs'[t].open
                         /\ tabs'[t].data # tabs[t].data \/ tabs'[t].currentUser # tabs[t].currentUser
                         /\ stored' = tabs'[t].data]_vars

\* A tab has saved, and the record of a user that another open tab holds
\* is gone from the stored document.
C21_Witness ==
    \E t \in Tabs, s \in Tabs :
        /\ t # s /\ tabs[t].open /\ tabs[s].open
        /\ tabs[t].currentUser # None /\ stored = tabs[t].data
        /\ \E u \in DOMAIN tabs[s].data.users : u \notin DOMAIN stored.users

\* The timing state of a document changes: a sector's startTime, or a field
\* of a task that is there before and after.
TimingChanged ==
    \/ \E p \in SectorPaths(data) \cap SectorPaths(data') :
           SectorAt(data', p).startTime # SectorAt(data, p).startTime
    \/ \E id \in IdsOf(data) \cap IdsOf(data') : TaskOf(data', id) # TaskOf(data, id)

\* A click on Start, Pit stop, Stop or Finish, or a Ready countdown ending.
TimingStep ==
    \/ \E p \in view, i \in ClickedRows :
           \/ StartTask(p, i, "ok") \/ PitStop(p, i, "ok")
           \/ StopTask(p, i, "ok") \/ FinishTask(p, i, "ok")
    \/ \E p \in view : Ready(p)
    \/ \E p \in countdowns : CountdownDone(p)

\* C22: a tick of the sector poll changes neither the in-memory document
\* nor the stored one, and only Start, Pit stop, Finish, Stop and Ready
\* change the timing state of a task or a sector.
C22_OnlyControlsChangeTiming ==
    [][/\ (\E p \in sectorTimerInterval : updateSectorTimer(p)) =>
              data' = data /\ stored' = stored
       /\ TimingChanged => TimingStep]_vars

\* The time of sector p is up.
Expired(p) ==
    /\ Truthy(SectorAt(data, p).startTime)
    /\ SECTOR_DURATION_MS - (now - SectorAt(data, p).startTime) <= 0

\* C23: the tick that finds the sector's time up cancels the poll and
\* changes no document; on an expired sector Start, Pit stop and Finish
\* still act; and an armed poll is cancelled in the end.
C23_ExpiryCancelsPollOnly ==
    /\ [][\A p \in view \cup sectorTimerInterval :
            /\ updateSectorTimer(p) /\ Expired(p) =>
                  sectorTimerInterval' = {} /\ data' = data /\ stored' = stored
            /\ \A i \in ClickedRows :
                  LET task == SectorAt(data, p).tasks[i]
                      after == SectorAt(data', p).tasks[i]
                  IN  /\ Expired(p) /\ StartTask(p, i, "ok")
                         /\ task.status \in {"Not started", "Paused"} =>
                            after.status = "Running"
                      /\ Expired(p) /\ PitStop(p, i, "ok") /\ task.status = "Running" =>
                            after.status = "Paused"
                      /\ Expired(p) /\ FinishTask(p, i, "ok")
                         /\ task.status \in {"Running", "Paused"} =>
                            after.status = "Finished"]_vars
    /\ (sectorTimerInterval # {}) ~> (sectorTimerInterval = {})

\* The poll of an expired sector is cancelled and, on the board, a task is
\* running that was started after the time was up.
C23_Witness ==
    /\ screen = "tasks" /\ sectorTimerInterval = {}
    /\ \E p \in view :
          /\ Expired(p)
          /\ \E i \in 1..Len(SectorAt(data, p).tasks) :
                /\ SectorAt(data, p).tasks[i].status = "Running"
                /\ SectorAt(data, p).tasks[i].startTime >=
                       SectorAt(data, p).startTime + SECTOR_DURATION_MS

\* C24: a Finish that leaves every task of the displayed sector Finished
\* cancels the poll; a Finish that leaves a task not Finished leaves the
\* poll armed or cancelled as it was.
C24_FinishCancelsPollWhenAllDone ==
    [][\A p \in view, i \in 1..MIN_TASKS :
          FinishTask(p, i, "ok") /\ data' # data =>
              sectorTimerInterval' =
                  IF allDone(SectorAt(data', p)) THEN {} ELSE sectorTimerInterval]_vars

\* C25: on the auth, welcome, sector-selection and history screens no poll
\* is armed, whatever countdown or render was pending when the board was
\* left.
C25_NoPollOffTheBoard ==
    screen \in {"auth", "welcome", "sectors", "history"} => sectorTimerInterval = {}

\* C26: every step that changes the in-memory document leaves the stored
\* document equal to it.
C26_MutationsSaved ==
    [][data' # data => stored' = data']_vars

\* C27: a page load that finds no document item, or one that does not
\* parse, goes on with an empty document; a page load that finds no
\* current-user item, or one naming a user the loaded document does not
\* hold, shows the auth screen, removes the item and leaves currentUser
\* null.
C27_StartupRecovery ==
    [][Reload("ok") =>
          /\ stored \in Unreadable => data' = [users |-> EmptyFn]
          /\ storedUser = None \/ storedUser \notin DOMAIN data'.users =>
                screen' = "auth" /\ storedUser' = None /\ currentUser' = None]_vars

\* C28: a click on a control in a status in which it does not act (Finish
\* on a Not started or Finished task, Start on a Running or Finished one,
\* Pit stop on one that is not Running, Stop on a Not started one) changes
\* no document, no backend row and no points; a second Finish awards
\* nothing.
C28_RefusedClicksChangeNothing ==
    [][\A p \in view, i \in ClickedRows :
          LET status == SectorAt(data, p).tasks[i].status
          IN  \/ FinishTask(p, i, "ok") /\ status \in {"Not started", "Finished"}
              \/ StartTask(p, i, "ok") /\ status \in {"Running", "Finished"}
              \/ PitStop(p, i, "ok") /\ status # "Running"
              \/ StopTask(p, i, "ok") /\ status = "Not started"
              => /\ data' = data /\ stored' = stored /\ dbTasks' = dbTasks
                 /\ sectorTimerInterval' = sectorTimerInterval]_vars

\* Start has just been refused on a task that is Finished and has earned
\* its points.
C28_Witness ==
    /\ lastAlert = "already_finished"
    /\ \E p \in view :
          /\ SectorAt(data, p).tasks[1].status = "Finished"
          /\ data.users[p.user].points = POINTS_PER_TASK

\* The points of user u change in this step.
PointsChange(u) ==
    u \notin DOMAIN data'.users \/ data'.users[u].points # data.users[u].points

\* A Finish that takes a Running or Paused task of the signed-in user to
\* Finished.
FinishTransition ==
    \E p \in view, i \in ClickedRows :
        /\ FinishTask(p, i, "ok")
        /\ SectorAt(data, p).tasks[i].status \in {"Running", "Paused"}
        /\ SectorAt(data', p).tasks[i].status = "Finished"

\* C29: the points of every user are a non-negative multiple of 25; a
\* Finish of a Running or Paused task adds exactly 25 to the points of the
\* signed-in user, and no other step changes anybody's points, so they
\* never go down.
C29_PointsOnlyByFinish ==
    /\ [](\A u \in DOMAIN data.users :
             data.users[u].points >= 0 /\ data.users[u].points % 25 = 0)
    /\ [][/\ FinishTransition =>
               data'.users[currentUser].points = data.users[currentUser].points + 25
          /\ \A u \in DOMAIN data.users :
                PointsChange(u) => FinishTransition /\ u = currentUser]_vars

\* The user has finished the one task twice, with a Stop in between, and
\* the page has been reloaded.
C29_Witness ==
    /\ screen = "welcome"
    /\ currentUser # None /\ currentUser \in DOMAIN data.users
    /\ data.users[currentUser].points = 50

\* C30: the elapsed time of a row is 0 when Not started, now - startTime -
\* pauseDuration when Running, pauseStart - startTime - pauseDuration when
\* Paused and the stored duration when Finished; it is the same just
\* before and just after a resume, and at a Finish it is the duration that
\* is stored.
C30_ElapsedContinuous ==
    [][\A p \in view, i \in ClickedRows :
          LET task  == SectorAt(data, p).tasks[i]
              after == SectorAt(data', p).tasks[i]
          IN  /\ StartTask(p, i, "ok") /\ task.status = "Paused" =>
                    /\ elapsed(task, now) =
                           task.pauseStart - task.startTime - task.pauseDuration
                    /\ elapsed(after, now') = elapsed(task, now)
                    /\ computeElapsed(after, now') = computeElapsed(task, now)
              /\ FinishTask(p, i, "ok") /\ task.status \in {"Running", "Paused"} =>
                    /\ elapsed(after, now') = after.duration
                    /\ elapsed(after, now') = elapsed(task, now)]_vars

\* C31: in the variant with points, a user listed with a weekly total of
\* zero has finished a task in a record of the current Monday..Saturday; a
\* user whose points all come from earlier weeks has no row.
C31_ZeroTotalListedForWeeklyPoints ==
    leaderboard.variant = "points" =>
        \A i \in 1..Len(leaderboard.rows) :
            leaderboard.rows[i].totalTimeMs = 0 =>
                FinishedIn(leaderboard.rows[i].username, WeekDays) # {}

\* C32: the points of every user are 25 times the number of that user's
\* Finished tasks, over all day records and sectors.
C32_PointsCountFinishedTasks ==
    \A u \in DOMAIN data.users :
        data.users[u].points =
            25 * Cardinality(FinishedIn(u, DOMAIN data.users[u].records))

\* C33: every sector whose startTime is set holds between MIN_TASKS and
\* MAX_TASKS tasks, also when tasks were added or removed while the
\* countdown of Ready was running.
C33_StartedSectorTaskCount ==
    \A p \in SectorPaths(data) :
        Truthy(SectorAt(data, p).startTime) =>
            /\ MIN_TASKS <= Len(SectorAt(data, p).tasks)
            /\ Len(SectorAt(data, p).tasks) <= MAX_TASKS

\* C34: in the document of every tab and in the stored document the
\* friendship relation is symmetric: v is in the friends of u exactly if u
\* is in the friends of v.
C34_FriendshipSymmetric ==
    \A doc \in Documents : \A u \in DOMAIN doc.users, v \in SocialUsers :
        Includes(doc.users[u].friends, v) =>
            v \in DOMAIN doc.users /\ Includes(doc.users[v].friends, u)

\* Two users are friends in the document of one tab while the document of
\* another tab, which holds both, does not know of it yet.
C34_Witness ==
    \E t \in Tabs, s \in Tabs, u \in SocialUsers, v \in SocialUsers :
        /\ t # s /\ u # v /\ tabs[t].open /\ tabs[s].open
        /\ Befriended(tabs[t].data, u, v)
        /\ {u, v} \subseteq DOMAIN tabs[s].data.users
        /\ ~Includes(tabs[s].data.users[u].friends, v)
        /\ ~Includes(tabs[s].data.users[v].friends, u)

\* C35: in every document, for every user, the friends list and the
\* friendRequests list name nobody twice, nobody stands in both, and the
\* user stands in neither.
C35_SocialListsWellFormed ==
    \A doc \in Documents : \A u \in DOMAIN doc.users :
        LET me == doc.users[u]
        IN  /\ NoDuplicates(me.friends) /\ NoDuplicates(me.friendRequests)
            /\ \A v \in SocialUsers :
                   ~(Includes(me.friends, v) /\ Includes(me.friendRequests, v))
            /\ ~Includes(me.friends, u) /\ ~Includes(me.friendRequests, u)

\* A request has been delivered and stands in the list of the signed-in
\* user of a tab.
C35_Witness ==
    /\ gShake.stage = "received"
    /\ \E t \in Tabs :
          /\ tabs[t].currentUser = gShake.to
          /\ tabs[t].data.users[gShake.to].friendRequests = <<gShake.from>>

\* C36: in the document of every tab, every name in a friends or
\* friendRequests list has a user record, so no acceptance and no message
\* handler fails on a missing record.
C36_ListedUsersHaveRecords ==
    \A t \in Tabs : \A u \in DOMAIN tabs[t].data.users, v \in SocialUsers :
        \/ Includes(tabs[t].data.users[u].friends, v)
        \/ Includes(tabs[t].data.users[u].friendRequests, v)
        => ~Throws(tabs[t].data, v)

\* C37: a currentUser that is not null has a record in the document, and
\* while the auth screen is shown currentUser is null.
C37_CurrentUserKnown ==
    /\ currentUser # None => currentUser \in DOMAIN data.users
    /\ screen = "auth" => currentUser = None

\* form.onsubmit of the registration form, accepted, in another tab of the
\* same browser that shows the auth screen over the stored document: the
\* backend session kept in the shared storage becomes u's, the record of u is
\* created and the document saved; the current-user item is not touched.
OtherTabRegister(u) ==
    /\ supaSession' = u
    /\ saveData(WithUser(loadData(stored), u))
    /\ lastAlert' = None
    /\ UNCHANGED <<now, data, storedUser, currentUser, sessionUser, currentSector,
                   screen, view, sectorTimerInterval, countdowns, renders, dbTasks,
                   faults, readyDisabled, gPause>>
    /\ UNCHANGED ext

\* Two accounts of one browser: sign-in, registration and logout in this
\* tab, registration in another tab, page loads.
NextIdentity ==
    \/ \E u \in StartupUsers, o \in {"ok", "signin", "profile"} : SubmitLogin(u, o)
    \/ \E u \in StartupUsers, o \in {"ok", "signup"} : SubmitRegister(u, o)
    \/ \E u \in StartupUsers : OtherTabRegister(u)
    \/ \E o \in {"ok", "fail"} : Reload(o)
    \/ Logout
    \/ GoSectorSelection
    \/ BackToWelcome
    \/ ViewHistory

SpecIdentity == Init /\ [][NextIdentity]_vars

\* C38: whenever a user is signed in to the tab and the tab holds a backend
\* identity, that identity is the one of the signed-in username, so no row and
\* no points are pushed under another user's identity.
C38_SessionBelongsToCurrentUser ==
    (currentUser # None /\ sessionUser # None) => sessionUser = currentUser

\* The sector cards clicked while the polls are followed.
PollSectors == {1, 2}

\* Two sectors of one day: boards are rendered, started by Ready and left
\* again while countdowns are pending and the hour runs out.
NextPoll ==
    \/ Elapse
    \/ \E u \in Users : SubmitLogin(u, "ok")
    \/ GoSectorSelection
    \/ \E s \in PollSectors : SelectSector(s)
    \/ \E r \in renders : RenderResume(r, "ok")
    \/ \E p \in view : AddTask(p, "ok", MIN_TASKS)
    \/ \E p \in view : Ready(p)
    \/ \E p \in countdowns : CountdownDone(p)
    \/ \E p \in sectorTimerInterval : updateSectorTimer(p)

SpecPoll == Init /\ [][NextPoll]_vars

====
